---- MODULE Spec2Model ----
(***************************************************************************)
(* A model of src/main.py: the credential manager (get_dropbox_client),    *)
(* the recursive folder downloader (download_dropbox_folder) and main.     *)
(*                                                                         *)
(* Strings are sequences of atoms.  The atom "/" is the path separator;    *)
(* every other atom stands for a non-empty run of characters that holds    *)
(* no separator.  Python's None is the value None below.                   *)
(***************************************************************************)
EXTENDS Integers, Sequences, FiniteSets, TLC

VARIABLES
    pc,           \* position of main(): see the actions
    credFile,     \* content of dropbox_credentials.json
    credentials,  \* the local variable of get_dropbox_client
    dbx,          \* the client handle main holds, or "None"
    shared_link,  \* the shared link the traversal runs on
    local_root,   \* the local destination root
    stack,        \* active invocations of download_dropbox_folder, innermost last
    fs,           \* the local file system under the destination: files and directories
    log,          \* every remote call, transfer, sleep and console report, in order
    nextId,       \* the remote service: entries it has listed so far, plus one
    continuesLeft,\* the remote service: continuation pages it may still answer with
    faultsLeft,   \* listings and entries the environment may still fail
    px            \* the path computation of main.py 99-110 on its own: see PathSpec

vars == <<pc, credFile, credentials, dbx, shared_link, local_root, stack, fs, log,
          nextId, continuesLeft, faultsLeft, px>>

-----------------------------------------------------------------------------
(* Bounds of the model. *)

MaxEntries == 2
MaxContinues == 1
MaxDepth == 2
MaxFaults == 2
MaxPathLen == 3

-----------------------------------------------------------------------------
(* Python values and string operations. *)

None == <<"<None>">>

Sep == "/"

RECURSIVE rstrip(_)
rstrip(s) ==
    IF s # <<>> /\ s[Len(s)] = Sep THEN rstrip(SubSeq(s, 1, Len(s) - 1)) ELSE s

RECURSIVE lstrip(_)
lstrip(s) ==
    IF s # <<>> /\ s[1] = Sep THEN lstrip(Tail(s)) ELSE s

\* os.path.join(a, b) on POSIX: an absolute b replaces a.
path_join(a, b) ==
    IF b # <<>> /\ b[1] = Sep THEN b
    ELSE IF a = <<>> \/ a[Len(a)] = Sep THEN a \o b
    ELSE a \o <<Sep>> \o b

\* os.path.dirname(p) on POSIX: the head up to the last separator, its trailing
\* separators removed unless it holds nothing else.
dirname(p) ==
    LET idx == {i \in 1..Len(p) : p[i] = Sep}
        k == IF idx = {} THEN 0 ELSE CHOOSE i \in idx : \A j \in idx : j <= i
        head == SubSeq(p, 1, k)
    IN  IF rstrip(head) = <<>> THEN head ELSE rstrip(head)

\* The components of a path: its atoms other than the separator.
components(p) == SelectSeq(p, LAMBDA a : a # Sep)

RECURSIVE join_components(_)
join_components(cs) ==
    IF cs = <<>> THEN <<>>
    ELSE IF Len(cs) = 1 THEN <<cs[1]>>
    ELSE <<cs[1], Sep>> \o join_components(Tail(cs))

\* os.path.relpath(path, start) for two absolute paths without "." and "..".
relpath(path, start) ==
    LET pc_ == components(path)
        sc == components(start)
        same == {i \in 0..Len(pc_) : i <= Len(sc) /\ \A j \in 1..i : pc_[j] = sc[j]}
        k == CHOOSE i \in same : \A j \in same : j <= i
        ups == [i \in 1..(Len(sc) - k) |-> ".."]
        rel == ups \o SubSeq(pc_, k + 1, Len(pc_))
    IN  IF rel = <<>> THEN <<".">> ELSE join_components(rel)

RootLike == {None, <<>>, <<Sep>>}

\* The strip-one-separator slip: only the last separator is removed.
full_path_strip_one(current_path, name) ==
    IF current_path \in RootLike THEN <<Sep>> \o name
    ELSE (IF current_path[Len(current_path)] = Sep
          THEN SubSeq(current_path, 1, Len(current_path) - 1)
          ELSE current_path) \o <<Sep>> \o name

\* main.py 100-103: the full Dropbox path of an entry.
full_path(current_path, name) ==
    IF current_path \in RootLike THEN <<Sep>> \o name
    ELSE rstrip(current_path) \o <<Sep>> \o name

\* A relative path that loses one leading separator and no more.
rel_path_strip_one(fp, dropbox_root) ==
    IF dropbox_root \in RootLike
    THEN (IF fp # <<>> /\ fp[1] = Sep THEN Tail(fp) ELSE fp)
    ELSE relpath(fp, dropbox_root)

\* main.py 106-109: the path relative to the share root.
rel_path(fp, dropbox_root) ==
    IF dropbox_root \in RootLike THEN lstrip(fp) ELSE relpath(fp, dropbox_root)

\* A flat destination: every file directly under the root.
local_file_path_flat(root, fp, dropbox_root) ==
    LET c == components(fp) IN path_join(root, <<c[Len(c)]>>)

\* main.py 110.
local_file_path(root, fp, dropbox_root) == path_join(root, rel_path(fp, dropbox_root))

-----------------------------------------------------------------------------
(* The shared link: its address and its query, a sequence of <<key, value>>  *)
(* pairs (urlparse(shared_link).query split at "&" and "=").                *)

\* A parse that keeps the pairs with a blank value.
parse_qs_keep_blank(query) == query

\* parse_qs: pairs with a blank value are dropped (keep_blank_values=False);
\* the values of one key keep their order.
parse_qs(query) == SelectSeq(query, LAMBDA kv : kv[2] # "")

\* query_params.get("rlkey", [None])[0]
rlkey_of(link) ==
    LET vals == SelectSeq(parse_qs(link.query), LAMBDA kv : kv[1] = "rlkey")
    IN  IF vals = <<>> THEN "None" ELSE vals[1][2]

\* main.py 126: the direct download URL.
file_url(entry, rlkey) ==
    <<"https://www.dropbox.com/scl/fi/", entry.id, Sep>> \o entry.name
        \o <<"?dl=1&rlkey=", rlkey>>

-----------------------------------------------------------------------------
(* Configuration: main.py 176-182. *)

\* main.py 176: "YOUR_DROPBOX_SHARED_LINK?rlkey=SOME_RLKEY"
SHARED_LINK == [url |-> "YOUR_DROPBOX_SHARED_LINK", query |-> << <<"rlkey", "SOME_RLKEY">> >>]

\* main.py 176 is a placeholder for the link of the user: as it stands, with
\* an rlkey, or a link without one.
SharedLinks == {SHARED_LINK, [url |-> "YOUR_DROPBOX_SHARED_LINK", query |-> <<>>]}

\* main.py 179
LOCAL_SAVE_PATH == <<"downloaded_files">>

\* main.py 182
dropbox_root == <<>>

\* The runs of the downloader: a shared link and a local destination root.
\* (The run of main itself, SHARED_LINK into LOCAL_SAVE_PATH, is MainSpec's.)
Runs ==
    { [link |-> [url |-> "https://x/scl/fo/ABC", query |-> << <<"dl", "0">> >>],
       root |-> <<"out", Sep>>],
      [link |-> [url |-> "https://x/scl/fo/ABC", query |-> << <<"rlkey", "">> >>],
       root |-> LOCAL_SAVE_PATH],
      [link |-> [url |-> "https://x/scl/fo/ABC",
                 query |-> << <<"rlkey", "">>, <<"rlkey", "KEY1">>, <<"rlkey", "KEY2">> >>],
       root |-> <<"out", Sep>>] }

-----------------------------------------------------------------------------
(* The remote service and the log. *)

NoPage == [entries |-> <<>>, has_more |-> FALSE, cursor |-> <<>>]

NoEntry == [name |-> <<>>, kind |-> "None", id |-> "", path |-> <<>>]

\* One record of the log: a call (with its outcome), a sleep, a return of
\* download_dropbox_folder, or a console report.
Ev(op, dir, entry, arg, res, page) ==
    [op |-> op, dir |-> dir, entry |-> entry, arg |-> arg, res |-> res, page |-> page]

Report(msg, dir, entry, arg) == Ev("print", dir, entry, arg, msg, NoPage)

\* The name of the j-th entry the service lists in one directory: names are
\* unique within a directory.
NameOf(j) == <<"n" \o ToString(j)>>

\* The remote path of the entry `name` of the directory listed as list_path.
RemotePath(list_path, name) ==
    <<Sep>> \o join_components(components(list_path) \o name)

\* The kinds of entry a directory at `depth` may hold.
KindsAt(depth) == IF depth < MaxDepth THEN {"File", "Folder"} ELSE {"File"}

\* The pages the service may answer a listing call of frame f with.
PagesFor(f, list_path, more_allowed) ==
    { [entries |-> [j \in 1..c |->
                      [name |-> NameOf(f.served + j),
                       kind |-> kinds[j],
                       id |-> "id:" \o ToString(nextId + j - 1),
                       path |-> RemotePath(list_path, NameOf(f.served + j))]],
       has_more |-> more,
       cursor |-> list_path \o <<"#" \o ToString(f.pages + 1)>>] :
        <<c, kinds, more>> \in
          UNION { {c} \X [1..c -> KindsAt(f.depth)] \X
                    (IF more_allowed THEN BOOLEAN ELSE {FALSE}) :
                  c \in 0..(MaxEntries - (nextId - 1)) } }

\* The outcomes of a call the environment may fail.  The retry of a download
\* belongs to the failure of its first attempt.
Outcomes(bad) == {"ok"} \cup (IF faultsLeft > 0 THEN bad ELSE {})

\* What files_download_to_file may raise: an ApiError whose error is a rate
\* limit, an ApiError of another kind, an ApiError whose error has no
\* is_rate_limit (the check at main.py 150 raises), or an exception that is
\* no ApiError.
Raised == {"ratelimit", "apierror", "badcheck", "other"}

\* What the direct download may raise (main.py 129-142).  It does not go
\* through the Dropbox client: a rate limit reaches it as the HTTP status
\* 429, which raise_for_status raises as an HTTPError, before the local file
\* is opened; anything else is an exception of the transport or of the disk,
\* before the local file is opened ("other": requests.get, open) or after it
\* ("midway": iter_content, write).
DirectRaised == {"http429", "other", "midway"}

\* What the retry may raise, as far as main.py 155 tells them apart.
RetryRaised == {"apierror", "other"}

IsApiError(e) == e \in {"ratelimit", "apierror", "badcheck"}

\* A handler that takes every failure for a rate limit.
rate_limit_check_always(e) == "yes"

\* main.py 150: isinstance(e, ApiError) and e.error.is_rate_limit(): "yes",
\* "no", or "raise" when the check itself raises.
rate_limit_check(e) ==
    IF ~IsApiError(e) THEN "no"
    ELSE IF e = "badcheck" THEN "raise"
    ELSE IF e = "ratelimit" THEN "yes"
    ELSE "no"

Spend(out) == IF out = "ok" THEN faultsLeft ELSE faultsLeft - 1

-----------------------------------------------------------------------------
(* The local file system. *)

\* The directories os.makedirs(d) makes sure exist: d and its ancestors.
DirsOf(d) ==
    { rstrip(SubSeq(d, 1, k)) : k \in {i \in 1..Len(d) : i = Len(d) \/ d[i + 1] = Sep} }
        \ {<<>>}

\* makedirs without exist_ok: an existing directory is refused too.
makedirs_refuses_existing(d) ==
    \/ d = <<>>
    \/ [path |-> d, kind |-> "dir"] \in fs

\* os.makedirs(d, exist_ok=True) refuses (raises, whatever the environment)
\* the empty name and a path with a file where a directory is needed; a
\* directory that exists already is not refused.
makedirs_refuses(d) ==
    \/ d = <<>>
    \/ \E x \in fs : x.path \in DirsOf(d) /\ x.kind # "dir"

makedirs(d) == fs \cup { [path |-> x, kind |-> "dir"] : x \in DirsOf(d) }

\* A file written to the end, or left partly written by a failed transfer.
write_file(files, path, kind) ==
    { x \in files : x.path # path } \cup { [path |-> path, kind |-> kind] }

-----------------------------------------------------------------------------
(* download_dropbox_folder: main.py 82-165.  One frame of `stack` is one     *)
(* active invocation; st is its position:                                   *)
(*   "list"     before files_list_folder (96)                               *)
(*   "entries"  in the for loop over result.entries, at entry i (98)        *)
(*   "attempt"  before the first download attempt of entry i (118)          *)
(*   "retry"    after the backoff sleep, before the retry (153)             *)

\* time.sleep(2), main.py 151
BACKOFF == 2

Frame(current_path, depth) ==
    [current_path |-> current_path, depth |-> depth, result |-> NoPage, i |-> 1,
     served |-> 0, pages |-> 0, st |-> "list"]

Top == stack[Len(stack)]

\* main.py 95
list_path_of(current_path) == IF current_path = None THEN <<>> ELSE current_path

Running == pc = "download" /\ stack # <<>>

\* A return after which the caller is at the same entry again.
Popped_no_advance ==
    IF Len(stack) = 1 THEN <<>> ELSE SubSeq(stack, 1, Len(stack) - 1)

\* The stack after the innermost invocation returned: its caller, if it is an
\* invocation (158-160), goes on to the next entry of its page.
Popped ==
    IF Len(stack) = 1 THEN <<>>
    ELSE [SubSeq(stack, 1, Len(stack) - 1) EXCEPT ![Len(stack) - 1].i = @ + 1]

\* The innermost invocation goes on to the next entry of its page.
Advanced == [stack EXCEPT ![Len(stack)].i = @ + 1, ![Len(stack)].st = "entries"]

\* A failure that is not handled in the invocation but ends the whole run.
FolderFailed_propagates(events) ==
    /\ log' = log \o events
                \o << Report("An error occurred", <<"<main>">>,
                             [name |-> <<>>, kind |-> "None", id |-> "", path |-> <<>>],
                             <<>>) >>
    /\ stack' = <<>>
    /\ pc' = "done"

\* main.py 164-165: the handler of the invocation's try, then its return.
FolderFailed(events) ==
    /\ log' = log \o events
                \o << Report("Error processing folder", Top.current_path, NoEntry, <<>>),
                      Ev("return", Top.current_path, NoEntry, <<>>, "Failed", NoPage) >>
    /\ stack' = Popped
    /\ pc' = IF Len(stack) = 1 THEN "returned" ELSE pc

\* The frame after a page was received.
Received(f, page) ==
    [f EXCEPT !.result = page, !.i = 1, !.st = "entries",
              !.served = @ + Len(page.entries), !.pages = @ + 1]

\* main.py 94-96: the first listing call.
ListFolder ==
    /\ Running /\ Top.st = "list"
    /\ LET lp == list_path_of(Top.current_path) IN
       \E out \in Outcomes({"raise"}) :
         /\ faultsLeft' = Spend(out)
         /\ IF out = "ok"
            THEN \E page \in PagesFor(Top, lp, continuesLeft > 0) :
                   /\ stack' = [stack EXCEPT ![Len(stack)] = Received(@, page)]
                   /\ log' = Append(log, Ev("files_list_folder", Top.current_path,
                                            NoEntry, lp, "ok", page))
                   /\ nextId' = nextId + Len(page.entries)
                   /\ pc' = pc
            ELSE /\ FolderFailed(<< Ev("files_list_folder", Top.current_path,
                                       NoEntry, lp, "raise", NoPage) >>)
                 /\ nextId' = nextId
    /\ UNCHANGED <<credFile, credentials, dbx, shared_link, local_root, fs,
                   continuesLeft, px>>

\* main.py 161-163: the page is done and has_more is set.
ListFolderContinue ==
    /\ Running /\ Top.st = "entries" /\ Top.i > Len(Top.result.entries)
    /\ Top.result.has_more
    /\ LET lp == list_path_of(Top.current_path)
           cur == Top.result.cursor IN
       \E out \in Outcomes({"raise"}) :
         /\ faultsLeft' = Spend(out)
         /\ IF out = "ok"
            THEN \E page \in PagesFor(Top, lp, continuesLeft > 1) :
                   /\ stack' = [stack EXCEPT ![Len(stack)] = Received(@, page)]
                   /\ log' = Append(log, Ev("files_list_folder_continue",
                                            Top.current_path, NoEntry, cur, "ok", page))
                   /\ nextId' = nextId + Len(page.entries)
                   /\ pc' = pc
            ELSE /\ FolderFailed(<< Ev("files_list_folder_continue", Top.current_path,
                                       NoEntry, cur, "raise", NoPage) >>)
                 /\ nextId' = nextId
    /\ continuesLeft' = continuesLeft - 1
    /\ UNCHANGED <<credFile, credentials, dbx, shared_link, local_root, fs,
                   px>>

\* A loop that ends at the end of the first page, whatever has_more says.
ReturnDone_ignores_has_more ==
    /\ Running /\ Top.st = "entries" /\ Top.i > Len(Top.result.entries)
    /\ log' = Append(log, Ev("return", Top.current_path, NoEntry, <<>>, "Done", NoPage))
    /\ stack' = Popped
    /\ pc' = IF Len(stack) = 1 THEN "returned" ELSE pc
    /\ UNCHANGED <<credFile, credentials, dbx, shared_link, local_root, fs, nextId,
                   continuesLeft, faultsLeft, px>>

\* main.py 161-162: the page is done and has_more is not set: break, return.
ReturnDone ==
    /\ Running /\ Top.st = "entries" /\ Top.i > Len(Top.result.entries)
    /\ ~Top.result.has_more
    /\ log' = Append(log, Ev("return", Top.current_path, NoEntry, <<>>, "Done", NoPage))
    /\ stack' = Popped
    /\ pc' = IF Len(stack) = 1 THEN "returned" ELSE pc
    /\ UNCHANGED <<credFile, credentials, dbx, shared_link, local_root, fs, nextId,
                   continuesLeft, faultsLeft, px>>

\* The entry the innermost invocation is at, and its paths (98-110).
Entry == Top.result.entries[Top.i]

EntryFullPath == full_path(Top.current_path, Entry.name)

EntryLocalPath == local_file_path(local_root, EntryFullPath, dropbox_root)

AtEntry == Running /\ Top.st = "entries" /\ Top.i <= Len(Top.result.entries)

Processing == Report("Processing entry", Top.current_path, Entry, EntryFullPath)

\* main.py 98-117: a File entry, up to the creation of its parent directory.
\* os.makedirs raises when it refuses the name, and when the environment
\* fails it; that is outside the inner try.
ProcessFileEntry ==
    /\ AtEntry /\ Entry.kind = "File"
    /\ LET d == dirname(EntryLocalPath) IN
       \E out \in (IF makedirs_refuses(d) THEN {"raise"} ELSE Outcomes({"raise"})) :
         /\ faultsLeft' = IF makedirs_refuses(d) THEN faultsLeft ELSE Spend(out)
         /\ IF out = "ok"
            THEN /\ fs' = makedirs(d)
                 /\ stack' = [stack EXCEPT ![Len(stack)].st = "attempt"]
                 /\ log' = log \o << Processing,
                                     Ev("makedirs", Top.current_path, Entry, d, "ok", NoPage) >>
                 /\ pc' = pc
            ELSE /\ fs' = fs
                 /\ FolderFailed(<< Processing,
                                    Ev("makedirs", Top.current_path, Entry, d, "raise", NoPage) >>)
    /\ UNCHANGED <<credFile, credentials, dbx, shared_link, local_root, nextId,
                   continuesLeft, px>>

\* A traversal that puts a folder aside and goes on with its own page first.
ProcessFolderEntry_deferred ==
    /\ AtEntry /\ Entry.kind = "Folder"
    /\ stack' = << Frame(EntryFullPath, Top.depth + 1) >> \o Advanced
    /\ log' = Append(log, Processing)
    /\ UNCHANGED <<pc, credFile, credentials, dbx, shared_link, local_root, fs, nextId,
                   continuesLeft, faultsLeft, px>>

\* main.py 98-114, 157-160: a Folder entry: the recursive call.
ProcessFolderEntry ==
    /\ AtEntry /\ Entry.kind = "Folder"
    /\ stack' = Append(stack, Frame(EntryFullPath, Top.depth + 1))
    /\ log' = Append(log, Processing)
    /\ UNCHANGED <<pc, credFile, credentials, dbx, shared_link, local_root, fs, nextId,
                   continuesLeft, faultsLeft, px>>

\* A transfer that removes what it wrote when it fails.
Transferred_cleans(out, opened) ==
    IF out = "ok" THEN write_file(fs, EntryLocalPath, "file")
    ELSE { x \in fs : x.path # EntryLocalPath }

\* What a transfer leaves of the local file: nothing new when it failed before
\* the file was opened (129-130), a partial file when it failed after (133-142).
\* What fails after the file was opened is the stream or the disk: no ApiError.
\* files_download_to_file is taken to write the file only when it succeeds.
Transferred(out, opened) ==
    IF out = "ok" THEN write_file(fs, EntryLocalPath, "file")
    ELSE IF opened THEN write_file(fs, EntryLocalPath, "partial")
    ELSE fs

\* main.py 118-151: the first attempt and the handler of its failure.
FirstAttempt ==
    /\ Running /\ Top.st = "attempt"
    /\ LET rlkey == rlkey_of(shared_link)
           direct == rlkey \notin {"None", ""}
           call == IF direct
                   THEN Ev("requests.get", Top.current_path, Entry,
                           file_url(Entry, rlkey), "ok", NoPage)
                   ELSE Ev("files_download_to_file", Top.current_path, Entry,
                           EntryLocalPath, "ok", NoPage)
           failed == Report("Error downloading", Top.current_path, Entry, EntryFullPath) IN
       \E out \in Outcomes(IF direct THEN DirectRaised ELSE Raised), opened \in BOOLEAN :
         /\ opened = (out \in {"ok", "midway"})
         /\ faultsLeft' = Spend(out)
         /\ fs' = Transferred(out, opened)
         /\ CASE out = "ok" ->
                  /\ log' = log \o << call, Report("Downloaded", Top.current_path,
                                                   Entry, EntryFullPath) >>
                  /\ stack' = Advanced
                  /\ pc' = pc
              [] out # "ok" /\ rate_limit_check(out) = "yes" ->
                  /\ log' = log \o << [call EXCEPT !.res = out], failed,
                                      Ev("time.sleep", Top.current_path, Entry,
                                         <<ToString(BACKOFF)>>, "ok", NoPage) >>
                  /\ stack' = [stack EXCEPT ![Len(stack)].st = "retry"]
                  /\ pc' = pc
              [] out # "ok" /\ rate_limit_check(out) = "raise" ->
                  FolderFailed(<< [call EXCEPT !.res = out], failed >>)
              [] OTHER ->
                  /\ log' = log \o << [call EXCEPT !.res = out], failed >>
                  /\ stack' = Advanced
                  /\ pc' = pc
    /\ UNCHANGED <<credFile, credentials, dbx, shared_link, local_root, nextId,
                   continuesLeft, px>>

\* main.py 155: except ApiError.
retry_caught(e) == IsApiError(e)

\* main.py 152-156: the retry through the API.
Retry ==
    /\ Running /\ Top.st = "retry"
    /\ LET call == Ev("files_download_to_file", Top.current_path, Entry,
                      EntryLocalPath, "ok", NoPage) IN
       \E out \in {"ok"} \cup RetryRaised :
         /\ faultsLeft' = faultsLeft
         /\ fs' = Transferred(out, out = "ok")
         /\ CASE out = "ok" ->
                  /\ log' = log \o << call, Report("Retry successful", Top.current_path,
                                                   Entry, EntryFullPath) >>
                  /\ stack' = Advanced
                  /\ pc' = pc
              [] out # "ok" /\ retry_caught(out) ->
                  /\ log' = log \o << [call EXCEPT !.res = out],
                                      Report("Retry failed", Top.current_path,
                                             Entry, EntryFullPath) >>
                  /\ stack' = Advanced
                  /\ pc' = pc
              [] OTHER ->
                  FolderFailed(<< [call EXCEPT !.res = out] >>)
    /\ UNCHANGED <<credFile, credentials, dbx, shared_link, local_root, nextId,
                   continuesLeft, px>>

-----------------------------------------------------------------------------
(* The credential manager and main: main.py 25-79, 168-192.                 *)
(* credFile is what dropbox_credentials.json holds:                         *)
(*   "absent"      no such file                                             *)
(*   "unreadable"  a file that cannot be read or is not JSON                *)
(*   "null"        the JSON value null                                      *)
(*   "no_token"    JSON without a "refresh_token" member                    *)
(*   "stored"      a token pair saved by an earlier run                     *)
(*   "new"         the token pair of this run's code exchange               *)

CredFiles == {"absent", "unreadable", "null", "no_token", "stored"}

\* The events of main and get_dropbox_client belong to no directory.
MainScope == <<"<main>">>

Auth(op, arg, res) == Ev(op, MainScope, NoEntry, arg, res, NoPage)

Say(msg) == Report(msg, MainScope, NoEntry, <<>>)

\* save_credentials that writes nothing.
save_credentials_nothing(file, creds) == file

\* main.py 36-41: the file after save_credentials(creds).
save_credentials(file, creds) == creds

\* get_dropbox_client that authorizes anew on every run.
bootstrap_always(creds) == TRUE

\* main.py 50: the bootstrap runs when nothing was loaded.
bootstrap_needed(creds) == creds = "None"

\* load_credentials that takes every failure to read for an absent file.
load_credentials_lenient(file) ==
    IF file \in {"absent", "unreadable", "null"} THEN "None" ELSE file

\* main.py 25-33: None for an absent file, "raise" for another failure to
\* open or parse, else what json.load returns (None for the JSON null).
load_credentials(file) ==
    IF file = "absent" THEN "None"
    ELSE IF file = "unreadable" THEN "raise"
    ELSE IF file = "null" THEN "None"
    ELSE file

\* main.py 48-50: the failure of load_credentials is handled nowhere.
LoadCredentials ==
    /\ pc = "start"
    /\ LET c == load_credentials(credFile) IN
         /\ credentials' = IF c = "raise" THEN credentials ELSE c
         /\ pc' = IF c = "raise" THEN "crashed"
                  ELSE IF bootstrap_needed(c) THEN "bootstrap" ELSE "build"
         /\ log' = Append(log, Auth("load_credentials", <<credFile>>, c))
    /\ UNCHANGED <<credFile, dbx, shared_link, local_root, stack, fs, nextId, continuesLeft,
                   faultsLeft, px>>

\* main.py 52-57: the authorization URL and the prompt.
StartAuthorization ==
    /\ pc = "bootstrap"
    /\ log' = log \o << Auth("auth_flow.start", <<>>, "ok"),
                        Say("1. Go to: authorize_url"),
                        Auth("input", <<>>, "ok") >>
    /\ pc' = "exchange"
    /\ UNCHANGED <<credFile, credentials, dbx, shared_link, local_root, stack, fs, nextId,
                   continuesLeft, faultsLeft, px>>

\* A save that is attempted whatever the exchange did.
save_attempted_always(finish) == TRUE

\* main.py 60-64: save_credentials follows auth_flow.finish in the try, so it
\* is reached only when finish returned.
save_attempted(finish) == finish = "ok"

\* main.py 59-68: the code exchange and the save of the token pair.  A save
\* that fails leaves the file as it was (it could not be opened) or
\* unreadable (it was opened for writing, and the write failed).
FinishAuthorization ==
    /\ pc = "exchange"
    /\ \E finish \in {"ok", "raise"}, save \in {"ok", "raise", "skipped"},
          left \in {credFile, "unreadable"} :
         LET token == IF finish = "ok" THEN "new" ELSE "None"
             calls == << Auth("auth_flow.finish", <<>>, finish) >>
                        \o (IF save = "skipped" THEN <<>>
                            ELSE << Auth("save_credentials", <<token>>, save) >>) IN
         /\ (save # "skipped") = save_attempted(finish)
         /\ left # credFile => save = "raise"
         /\ credFile' = IF save = "ok" THEN save_credentials(credFile, token) ELSE left
         /\ credentials' = IF finish = "ok" THEN "new" ELSE credentials
         /\ IF finish = "ok" /\ save = "ok"
            THEN /\ log' = log \o calls
                 /\ pc' = "build"
                 /\ dbx' = dbx
            ELSE /\ log' = log \o calls \o << Say("Error") >>
                 /\ dbx' = "None"
                 /\ pc' = "client_returned"
    /\ UNCHANGED <<shared_link, local_root, stack, fs, nextId, continuesLeft,
                   faultsLeft, px>>

\* main.py 70-79: the client is built from credentials["refresh_token"].
BuildClient ==
    /\ pc = "build"
    /\ \E out \in (IF credentials = "no_token" THEN {"raise"} ELSE {"ok", "raise"}) :
         /\ dbx' = IF out = "ok" THEN credentials ELSE "None"
         /\ log' = log \o << Auth("dropbox.Dropbox", <<credentials>>, out) >>
                      \o (IF out = "ok" THEN <<>> ELSE << Say("Error creating Dropbox client") >>)
    /\ pc' = "client_returned"
    /\ UNCHANGED <<credFile, credentials, shared_link, local_root, stack, fs, nextId,
                   continuesLeft, faultsLeft, px>>

\* main that starts the download whatever get_dropbox_client returned.
main_proceeds_unchecked(client) == TRUE

\* main.py 171: the download starts only with a client.
main_proceeds(client) == client # "None"

\* main.py 170-189: the check of the client, then the call of the downloader.
StartDownload ==
    /\ pc = "client_returned"
    /\ IF main_proceeds(dbx)
       THEN /\ log' = Append(log, Say("Starting download from shared link"))
            /\ stack' = << Frame(None, 0) >>
            /\ pc' = "download"
       ELSE /\ log' = Append(log, Say("Failed to initialize Dropbox client"))
            /\ stack' = stack
            /\ pc' = "done"
    /\ UNCHANGED <<credFile, credentials, dbx, shared_link, local_root, fs, nextId,
                   continuesLeft, faultsLeft, px>>

\* main.py 190: the downloader returned.
Completed ==
    /\ pc = "returned"
    /\ log' = Append(log, Say("Download completed successfully!"))
    /\ pc' = "done"
    /\ UNCHANGED <<credFile, credentials, dbx, shared_link, local_root, stack, fs, nextId,
                   continuesLeft, faultsLeft, px>>

-----------------------------------------------------------------------------
(* Specifications. *)

Download ==
    \/ ListFolder
    \/ ListFolderContinue
    \/ ReturnDone
    \/ ProcessFileEntry
    \/ ProcessFolderEntry
    \/ FirstAttempt
    \/ Retry
    \/ Completed

NoPathInput == px = [st |-> "unused"]

\* The downloader called with a client, as main.py 189 calls it, in any of the
\* runs.
Init ==
    /\ pc = "download"
    /\ credFile = "stored" /\ credentials = "stored" /\ dbx = "stored"
    /\ \E run \in Runs : shared_link = run.link /\ local_root = run.root
    /\ stack = << Frame(None, 0) >>
    /\ fs = {} /\ log = <<>> /\ nextId = 1
    /\ continuesLeft = MaxContinues /\ faultsLeft = MaxFaults
    /\ NoPathInput

Next == Download

Spec == Init /\ [][Next]_vars

\* The whole program, from the start of main.
MainInit ==
    /\ pc = "start"
    /\ credFile \in CredFiles /\ credentials = "None" /\ dbx = "None"
    /\ shared_link \in SharedLinks
    /\ local_root = LOCAL_SAVE_PATH
    /\ stack = <<>>
    /\ fs = {} /\ log = <<>> /\ nextId = 1
    /\ continuesLeft = MaxContinues /\ faultsLeft = MaxFaults
    /\ NoPathInput

MainNext ==
    \/ LoadCredentials
    \/ StartAuthorization
    \/ FinishAuthorization
    \/ BuildClient
    \/ StartDownload
    \/ Download

MainSpec == MainInit /\ [][MainNext]_vars

-----------------------------------------------------------------------------
(* The path computation of one entry (main.py 99-110) on its own, for any   *)
(* current directory, entry name, share root and destination root, and the  *)
(* recursive call (158-160) that makes the full path the current directory. *)

PathAtoms == {Sep, "a"}

Strings(n) == UNION { [1..k -> PathAtoms] : k \in 0..n }

\* Entry names: not empty.
NameInputs == Strings(MaxPathLen - 1) \ {<<>>}

SlashFree(str) == \A i \in 1..Len(str) : str[i] # Sep

PathInit ==
    /\ \E cp \in Strings(MaxPathLen) \cup {None},
          dr \in RootLike \cup {<<Sep, "a">>},
          lr \in {LOCAL_SAVE_PATH, <<"out", Sep>>} :
         px = [st |-> "input", current_path |-> cp, dropbox_root |-> dr, local_root |-> lr,
               name |-> <<>>, full_path |-> <<>>, rel_path |-> <<>>,
               local_file_path |-> <<>>,
               from_root |-> (cp = None), clean |-> TRUE]
    /\ pc = "paths"
    /\ credFile = "stored" /\ credentials = "stored" /\ dbx = "stored"
    /\ shared_link = SHARED_LINK /\ local_root = LOCAL_SAVE_PATH
    /\ stack = <<>> /\ fs = {} /\ log = <<>> /\ nextId = 1
    /\ continuesLeft = 0 /\ faultsLeft = 0

\* main.py 99-110 for one entry.
ComputePaths ==
    /\ pc = "paths" /\ px.st = "input"
    /\ \E name \in NameInputs :
         LET fp == full_path(px.current_path, name) IN
         px' = [px EXCEPT !.st = "computed", !.name = name, !.full_path = fp,
                          !.rel_path = rel_path(fp, px.dropbox_root),
                          !.local_file_path =
                              local_file_path(px.local_root, fp, px.dropbox_root),
                          !.clean = @ /\ SlashFree(name)]
    /\ UNCHANGED <<pc, credFile, credentials, dbx, shared_link, local_root, stack, fs,
                   log, nextId, continuesLeft, faultsLeft>>

\* main.py 158-160: the entry is a folder, and its full path is the current
\* directory of the invocation for it.
Descend ==
    /\ pc = "paths" /\ px.st = "computed"
    /\ Len(px.full_path) <= MaxPathLen
    /\ px' = [px EXCEPT !.st = "input", !.current_path = px.full_path]
    /\ UNCHANGED <<pc, credFile, credentials, dbx, shared_link, local_root, stack, fs,
                   log, nextId, continuesLeft, faultsLeft>>

PathNext == ComputePaths \/ Descend

PathSpec == PathInit /\ [][PathNext]_vars

-----------------------------------------------------------------------------
(* What the log tells. *)

Listings == {"files_list_folder", "files_list_folder_continue"}

Transfers == {"requests.get", "files_download_to_file"}

Calls == Listings \cup Transfers \cup {"makedirs"}

FailedCall(e) == e.op \in Calls /\ e.res # "ok"

IsProcessing(e) == e.op = "print" /\ e.res = "Processing entry"

\* The directories an invocation was started for.
Invoked == { log[k].dir : k \in {i \in DOMAIN log : log[i].op = "files_list_folder"} }

\* The pages the service answered the listing calls of directory d with.
PagesOf(d) ==
    LET got == SelectSeq(log, LAMBDA e : e.op \in Listings /\ e.dir = d /\ e.res = "ok")
    IN  [j \in DOMAIN got |-> got[j].page]

RECURSIVE EntriesOf(_)
EntriesOf(pages) ==
    IF pages = <<>> THEN <<>> ELSE Head(pages).entries \o EntriesOf(Tail(pages))

\* The entries of directory d the invocation went through, in order.
ProcessedOf(d) ==
    LET got == SelectSeq(log, LAMBDA e : IsProcessing(e) /\ e.dir = d)
    IN  [j \in DOMAIN got |-> got[j].entry]

\* Every entry the service listed in the run.
Listed ==
    UNION { {log[k].page.entries[j] : j \in DOMAIN log[k].page.entries} :
            k \in {i \in DOMAIN log : log[i].op \in Listings /\ log[i].res = "ok"} }

ReturnedAs(d, how) ==
    \E k \in DOMAIN log : log[k].op = "return" /\ log[k].dir = d /\ log[k].res = how

Returned(d) == ReturnedAs(d, "Done") \/ ReturnedAs(d, "Failed")

\* A call of the invocation for d itself failed (not one of an invocation
\* further down).
OwnFailure(d) == \E k \in DOMAIN log : log[k].dir = d /\ FailedCall(log[k])

\* The listing of d ran to its last page.
ListedToEnd(d) ==
    LET pages == PagesOf(d)
    IN  pages # <<>> /\ ~pages[Len(pages)].has_more

\* The number of successful transfers of entry e.
Downloads(e) ==
    Cardinality({k \in DOMAIN log :
                   log[k].op \in Transfers /\ log[k].entry.id = e.id /\ log[k].res = "ok"})

LocalFiles == { x \in fs : x.kind # "dir" }

-----------------------------------------------------------------------------
(* C1: in a run where no listing, continuation, directory-creation or       *)
(* download call fails, the local files written are exactly the destination *)
(* root joined with the remote path, less its leading separator, of every   *)
(* File entry of the tree; each file is downloaded exactly once, and no     *)
(* local file is written for a Folder entry.  The tree is what the service  *)
(* lists: every folder it listed was asked for by its remote path, and      *)
(* every listing ran to its last page.                                      *)

\* The destination root joined with the remote path less its leading separator.
MirrorOf(remote) ==
    IF local_root[Len(local_root)] = Sep
    THEN local_root \o SubSeq(remote, 2, Len(remote))
    ELSE local_root \o remote

C1_mirror ==
    (pc = "done" /\ \A k \in DOMAIN log : ~FailedCall(log[k])) =>
        /\ \A e \in Listed :
             e.kind = "Folder" =>
               /\ \E k \in DOMAIN log :
                    log[k].op = "files_list_folder" /\ log[k].arg = e.path
               /\ Downloads(e) = 0
               /\ \A x \in LocalFiles : x.path # MirrorOf(e.path)
        /\ \A d \in Invoked : ListedToEnd(d)
        /\ \A e \in Listed : e.kind = "File" => Downloads(e) = 1
        /\ LocalFiles =
             { [path |-> MirrorOf(e.path), kind |-> "file"] :
               e \in {x \in Listed : x.kind = "File"} }

\* A run without a failure that wrote a file of a subfolder.
C1_witness ==
    /\ pc = "done" /\ \A k \in DOMAIN log : ~FailedCall(log[k])
    /\ \E e \in Listed :
         /\ e.kind = "File" /\ Len(components(e.path)) = 2
         /\ [path |-> MirrorOf(e.path), kind |-> "file"] \in fs

-----------------------------------------------------------------------------
(* C2: pagination.  When no call of the invocation for a directory raises,  *)
(* the invocation goes through every entry of every page exactly once, in   *)
(* page order and in entry order within a page, calls                       *)
(* files_list_folder_continue once for each page that has has_more set,     *)
(* with that page's cursor, and returns only after the page without         *)
(* has_more was gone through.                                               *)

\* The listing calls and the entries gone through of directory d, in order.
PagingOf(d) ==
    SelectSeq(log, LAMBDA e : e.dir = d /\ (e.op \in Listings \/ IsProcessing(e)))

\* In the paging t, the page received at position j is followed by its
\* entries, in order, and then by the continuation with its cursor, or by
\* nothing when has_more is not set.
PageFollowed(t, j) ==
    LET page == t[j].page
        n == Len(page.entries) IN
    /\ j + n <= Len(t)
    /\ \A i \in 1..n : IsProcessing(t[j + i]) /\ t[j + i].entry = page.entries[i]
    /\ IF page.has_more
       THEN /\ j + n + 1 <= Len(t)
            /\ t[j + n + 1].op = "files_list_folder_continue"
            /\ t[j + n + 1].arg = page.cursor
       ELSE j + n = Len(t)

C2_pagination ==
    \A d \in Invoked :
      (Returned(d) /\ ~OwnFailure(d)) =>
        LET t == PagingOf(d) IN
        /\ ReturnedAs(d, "Done")
        /\ t[1].op = "files_list_folder"
        /\ \A j \in DOMAIN t : t[j].op \in Listings => PageFollowed(t, j)
        /\ \A j \in DOMAIN t : j > 1 => t[j].op # "files_list_folder"
        /\ ProcessedOf(d) = EntriesOf(PagesOf(d))
        /\ \A k \in DOMAIN log :
             log[k].dir = d => \A r \in DOMAIN log :
                (log[r].op = "return" /\ log[r].dir = d) => k <= r

\* An invocation returned after two pages with an entry each.
C2_witness ==
    \E d \in Invoked :
      /\ ReturnedAs(d, "Done") /\ ~OwnFailure(d)
      /\ Len(PagesOf(d)) = 2
      /\ \A j \in 1..2 : Len(PagesOf(d)[j].entries) = 1
      /\ Len(ProcessedOf(d)) = 2

-----------------------------------------------------------------------------
(* C3: rate-limit recovery.  When the direct download of a file raises a    *)
(* rate-limit error on its first attempt, the system sleeps the fixed       *)
(* backoff, then calls files_download_to_file for that file, once in the    *)
(* whole run, and reports the file as downloaded when that call succeeds.   *)

\* The rate-limit errors of a download: of the direct one, the HTTP status 429.
RateLimited == {"http429", "ratelimit"}

ApiCalls(e) ==
    {k \in DOMAIN log : log[k].op = "files_download_to_file" /\ log[k].entry.id = e.id}

C3_rate_limit_recovery ==
    \A k \in DOMAIN log :
      (log[k].op = "requests.get" /\ log[k].res \in RateLimited) =>
        LET e == log[k].entry IN
        /\ k + 2 <= Len(log)
        /\ log[k + 1].op = "print" /\ log[k + 1].res = "Error downloading"
        /\ log[k + 2].op = "time.sleep" /\ log[k + 2].arg = <<"2">>
        /\ ApiCalls(e) \subseteq {k + 3}
        /\ k + 2 = Len(log) => (stack # <<>> /\ Top.st = "retry" /\ Entry = e)
        /\ k + 3 <= Len(log) =>
             /\ ApiCalls(e) = {k + 3}
             /\ log[k + 3].arg = MirrorOf(e.path)
             /\ log[k + 3].res = "ok" =>
                  /\ k + 4 <= Len(log)
                  /\ log[k + 4].op = "print" /\ log[k + 4].res = "Retry successful"
                  /\ log[k + 4].entry = e
                  /\ [path |-> MirrorOf(e.path), kind |-> "file"] \in fs

-----------------------------------------------------------------------------
(* C4: file-level failure isolation.  Whenever a download fails, the first  *)
(* attempt with an error that is no rate limit or the retry with any error, *)
(* the failure is reported for that file and the invocation goes on with    *)
(* the rest of the directory: it is not the directory that fails.           *)

\* The transfer at position k of the log is a retry: it follows the sleep.
IsRetry(k) == k > 1 /\ log[k].op = "files_download_to_file" /\ log[k - 1].op = "time.sleep"

\* A download that failed for good: a first attempt with an ApiError that is
\* no rate limit or with another exception, or a retry.
FailedForGood(k) ==
    /\ log[k].op \in Transfers /\ log[k].res # "ok"
    /\ IsRetry(k) \/ log[k].res \in {"apierror", "other", "midway"}

C4_file_failure_isolated ==
    \A k \in DOMAIN log :
      FailedForGood(k) =>
        /\ k + 1 <= Len(log)
        /\ log[k + 1].op = "print"
        /\ log[k + 1].res \in {"Error downloading", "Retry failed"}
        /\ log[k + 1].entry = log[k].entry
        /\ k + 1 = Len(log) =>
             /\ stack # <<>> /\ Top.current_path = log[k].dir /\ Top.st = "entries"
             /\ Top.i > 1 /\ Top.result.entries[Top.i - 1] = log[k].entry

-----------------------------------------------------------------------------
(* C5: folder-level failure isolation.  When the listing or a continuation  *)
(* of a subfolder raises, the failure is reported, the invocation for the   *)
(* subfolder returns to its caller and does nothing more, and the caller    *)
(* goes on with the entry after the subfolder: when no call of its own      *)
(* fails, it goes through all its entries and pages and returns Done.       *)

\* The directory whose invocation came to the folder d.
ParentOf(d) ==
    LET q == CHOOSE q \in DOMAIN log :
                 IsProcessing(log[q]) /\ log[q].entry.kind = "Folder" /\ log[q].arg = d
    IN  log[q].dir

\* Directory d was gone through to the end.
GoneThrough(d) ==
    /\ ReturnedAs(d, "Done")
    /\ ListedToEnd(d)
    /\ ProcessedOf(d) = EntriesOf(PagesOf(d))

C5_folder_failure_isolated ==
    \A k \in DOMAIN log :
      (log[k].op \in Listings /\ log[k].res = "raise" /\ log[k].dir # None) =>
        LET d == log[k].dir
            p == ParentOf(d) IN
        /\ k + 2 <= Len(log)
        /\ log[k + 1].op = "print" /\ log[k + 1].res = "Error processing folder"
        /\ log[k + 1].dir = d
        /\ log[k + 2].op = "return" /\ log[k + 2].res = "Failed" /\ log[k + 2].dir = d
        /\ \A j \in DOMAIN log : j > k + 2 => log[j].dir # d
        /\ k + 2 = Len(log) =>
             /\ stack # <<>> /\ Top.current_path = p /\ Top.st = "entries"
             /\ Top.i > 1 /\ Top.result.entries[Top.i - 1].path = d
        /\ (Returned(p) /\ ~OwnFailure(p)) => GoneThrough(p)

\* The listing of a subfolder raised, and its parent went through a later
\* entry and returned Done.
C5_witness ==
    \E k \in DOMAIN log :
      /\ log[k].op \in Listings /\ log[k].res = "raise" /\ log[k].dir # None
      /\ GoneThrough(ParentOf(log[k].dir))
      /\ \E j \in DOMAIN log :
           j > k /\ IsProcessing(log[j]) /\ log[j].dir = ParentOf(log[k].dir)

-----------------------------------------------------------------------------
(* C6: fallback selection.  As claimed: for a shared link whose query has   *)
(* no rlkey parameter every first attempt of a file goes through            *)
(* files_download_to_file and no direct GET is issued, and when rlkey is    *)
(* present the first attempt of every file is the direct GET.               *)

HasRlkeyParam == \E i \in DOMAIN shared_link.query : shared_link.query[i][1] = "rlkey"

\* The positions of the first attempts in the log.
FirstAttempts == {k \in DOMAIN log : log[k].op \in Transfers /\ ~IsRetry(k)}

C6_as_claimed ==
    /\ ~HasRlkeyParam =>
         \A k \in FirstAttempts : log[k].op = "files_download_to_file"
    /\ HasRlkeyParam =>
         \A k \in FirstAttempts : log[k].op = "requests.get"

(* C6, amended: the rlkey that counts is the first rlkey parameter with a   *)
(* value that is not blank.  Without one, every first attempt of a file     *)
(* goes through files_download_to_file, for that entry and to its local     *)
(* path, and no direct GET is issued in the run; with one, the first        *)
(* attempt of every file is the direct GET of the URL built from the entry  *)
(* id, the entry name and that value.  Every file whose parent directory    *)
(* was created gets its first attempt.                                      *)

\* The positions of the rlkey parameters of the link whose value is not blank.
RlkeyValues ==
    {i \in DOMAIN shared_link.query :
       shared_link.query[i][1] = "rlkey" /\ shared_link.query[i][2] # ""}

FirstRlkey ==
    shared_link.query[CHOOSE i \in RlkeyValues : \A j \in RlkeyValues : i <= j][2]

C6_fallback_selection ==
    /\ \A k \in DOMAIN log :
         (log[k].op = "makedirs" /\ log[k].res = "ok" /\ k < Len(log)) =>
           (k + 1 \in FirstAttempts /\ log[k + 1].entry = log[k].entry)
    /\ \A k \in FirstAttempts :
         /\ log[k - 1].op = "makedirs" /\ log[k].entry.kind = "File"
         /\ IF RlkeyValues = {}
            THEN /\ log[k].op = "files_download_to_file"
                 /\ log[k].arg = MirrorOf(log[k].entry.path)
            ELSE /\ log[k].op = "requests.get"
                 /\ log[k].arg = <<"https://www.dropbox.com/scl/fi/", log[k].entry.id, "/">>
                                   \o log[k].entry.name
                                   \o <<"?dl=1&rlkey=", FirstRlkey>>
    /\ RlkeyValues = {} => \A k \in DOMAIN log : log[k].op # "requests.get"

\* A direct GET on a link whose first rlkey parameter is blank.
C6_witness ==
    /\ shared_link.query # <<>> /\ shared_link.query[1] = <<"rlkey", "">>
    /\ \E k \in DOMAIN log : log[k].op = "requests.get" /\ log[k].res = "ok"

-----------------------------------------------------------------------------
(* C7: credential bootstrap, first run.  When there is no credentials file, *)
(* get_dropbox_client starts the flow, shows the authorization URL, prompts *)
(* for the code, exchanges it, saves the token pair to the credentials      *)
(* file, and only then builds the client from the new refresh token: in     *)
(* that order, each step after the one before it succeeded, and the handle  *)
(* it returns is the one of the new token, with the pair in the file.       *)

\* What get_dropbox_client did, in order: its calls, and the URL it showed.
AuthTrace ==
    SelectSeq(log, LAMBDA e :
        e.dir = MainScope /\ (e.op # "print" \/ e.res = "1. Go to: authorize_url"))

BootstrapOrder ==
    <<"load_credentials", "auth_flow.start", "print", "input", "auth_flow.finish",
      "save_credentials", "dropbox.Dropbox">>

\* What the run found in the credentials file.
FileAtStart == IF log = <<>> THEN credFile ELSE log[1].arg[1]

C7_bootstrap_order ==
    (log # <<>> /\ FileAtStart = "absent") =>
      LET t == AuthTrace IN
      /\ Len(t) <= Len(BootstrapOrder)
      /\ \A i \in DOMAIN t : t[i].op = BootstrapOrder[i]
      /\ \A i \in DOMAIN t :
           (i < Len(t) /\ t[i].op # "print") => t[i].res \in {"ok", "None"}
      /\ credFile = IF Len(t) >= 6 /\ t[6].res = "ok" THEN "new"
                    ELSE IF Len(t) >= 6 /\ credFile = "unreadable" THEN "unreadable"
                    ELSE "absent"
      /\ Len(t) = 7 => t[7].arg = <<"new">>
      /\ dbx # "None" => (dbx = "new" /\ Len(t) = 7 /\ t[7].res = "ok")
      /\ pc \in {"download", "returned"} => dbx # "None"

\* The first run obtained a client and went on to the download.
C7_witness ==
    /\ log # <<>> /\ FileAtStart = "absent"
    /\ dbx = "new" /\ credFile = "new" /\ pc = "download"

-----------------------------------------------------------------------------
(* C8: no re-bootstrap with stored credentials.  As claimed: whenever the   *)
(* credentials file loads, get_dropbox_client does not start the            *)
(* authorization flow and does not prompt.                                  *)

Bootstrap == {"auth_flow.start", "input", "auth_flow.finish", "save_credentials"}

C8_as_claimed ==
    (log # <<>> /\ FileAtStart \notin {"absent", "unreadable"}) =>
      \A k \in DOMAIN log : log[k].op \notin Bootstrap

(* C8, amended: whenever the credentials file loads as anything but the     *)
(* JSON null, get_dropbox_client does not start the authorization flow and  *)
(* does not prompt; it builds the client from what it loaded: with a        *)
(* usable stored token it returns the handle of that token, and when the    *)
(* construction fails, as it does when refresh_token is missing, it reports *)
(* the error and returns None.  The credentials file is left as it was.     *)

C8_no_rebootstrap ==
    (log # <<>> /\ FileAtStart \in {"no_token", "stored"}) =>
      /\ \A k \in DOMAIN log : log[k].op \notin Bootstrap
      /\ credFile = FileAtStart
      /\ pc # "build" => (Len(log) >= 2 /\ log[2].op = "dropbox.Dropbox")
      /\ \A k \in DOMAIN log :
           log[k].op = "dropbox.Dropbox" =>
             /\ log[k].arg = <<FileAtStart>>
             /\ FileAtStart = "no_token" => log[k].res = "raise"
             /\ log[k].res = "ok" => dbx = "stored"
             /\ log[k].res = "raise" =>
                  /\ dbx = "None"
                  /\ k + 1 <= Len(log)
                  /\ log[k + 1] = Say("Error creating Dropbox client")
      /\ dbx \in {"None", "stored"}

\* A stored token the client could not be built from.
C8_witness ==
    /\ log # <<>> /\ FileAtStart = "stored" /\ pc = "done" /\ dbx = "None"
    /\ \E k \in DOMAIN log : log[k].op = "dropbox.Dropbox" /\ log[k].res = "raise"

-----------------------------------------------------------------------------
(* C9: a startup failure is fatal to downloading.  When get_dropbox_client  *)
(* returned None, main reports the failure and ends: no listing call, no    *)
(* download call, no directory and no file under the destination root.      *)

C9_startup_failure_fatal ==
    (dbx = "None" /\ pc \notin {"start", "bootstrap", "exchange", "build"}) =>
      /\ pc \in {"client_returned", "done", "crashed"}
      /\ stack = <<>> /\ fs = {}
      /\ \A k \in DOMAIN log : log[k].op \notin Calls \cup {"time.sleep", "return"}
      /\ pc = "done" => log[Len(log)] = Say("Failed to initialize Dropbox client")

\* The code exchange failed and main ended.
C9_witness ==
    /\ pc = "done" /\ dbx = "None"
    /\ \E k \in DOMAIN log : log[k].op = "auth_flow.finish" /\ log[k].res = "raise"

-----------------------------------------------------------------------------
(* C10: child remote path construction.  For every current directory p and  *)
(* entry name n the full path is "/" + n when p is None, empty or "/", and  *)
(* otherwise p without its trailing separators, followed by "/" + n.  In a  *)
(* traversal from the share root, with names that hold no separator, every  *)
(* full path begins with exactly one "/" and holds no doubled separator.    *)

\* p without its trailing separators: its longest prefix that does not end
\* with one.
StripTrailing(p) ==
    LET ends == {i \in 0..Len(p) : i = 0 \/ p[i] # Sep}
    IN  SubSeq(p, 1, CHOOSE i \in ends : \A j \in ends : j <= i)

C10_child_path ==
    px.st = "computed" =>
      /\ px.full_path =
           IF px.current_path = None \/ px.current_path = <<>> \/ px.current_path = <<Sep>>
           THEN <<Sep>> \o px.name
           ELSE StripTrailing(px.current_path) \o <<Sep>> \o px.name
      /\ (px.from_root /\ px.clean) =>
           /\ px.full_path[1] = Sep
           /\ \A i \in 1..(Len(px.full_path) - 1) :
                ~(px.full_path[i] = Sep /\ px.full_path[i + 1] = Sep)

\* The full path of an entry of a directory given with trailing separators.
C10_witness ==
    /\ px.st = "computed"
    /\ px.current_path \notin RootLike
    /\ Len(px.current_path) >= 3
    /\ px.current_path[Len(px.current_path)] = Sep
    /\ px.current_path[Len(px.current_path) - 1] = Sep
    /\ px.current_path[1] # Sep

-----------------------------------------------------------------------------
(* C11: local-relative path with a root-like share root.  As claimed: for   *)
(* every full remote path p, when the share root is None, empty or "/", the *)
(* local-relative path is p with exactly one leading separator stripped,    *)
(* and the local path is the local root joined with that relative path.     *)

StripOne(p) == IF p # <<>> /\ p[1] = Sep THEN Tail(p) ELSE p

\* A relative path under a root: the root, a separator unless the root ends
\* with one, and the path.
JoinedUnder(root, rel) ==
    IF root[Len(root)] = Sep THEN root \o rel ELSE root \o <<Sep>> \o rel

LeadingSeps(p) ==
    LET lead == {i \in 0..Len(p) : \A j \in 1..i : p[j] = Sep}
    IN  CHOOSE i \in lead : \A j \in lead : j <= i

-----------------------------------------------------------------------------
(* C12: idempotent directory creation.  Creating the parent directory of a  *)
(* file adds the directory and its missing ancestors and nothing else; when *)
(* the directory exists already the request is not refused (it fails only   *)
(* when the environment fails it) and leaves the directory tree as it was.  *)

DirectoryTree(files) == { x \in files : x.kind = "dir" }

\* Every prefix of d that ends before a separator or at the end of d, less
\* its trailing separators: d and its ancestors.
Ancestry(d) ==
    { StripTrailing(SubSeq(d, 1, k)) :
        k \in {i \in 1..Len(d) : i = Len(d) \/ d[i + 1] = Sep} } \ {<<>>}

C12_makedirs_step ==
    (AtEntry /\ Entry.kind = "File" /\ log' # log) =>
      LET ev == log'[Len(log) + 2]
          d == ev.arg
          had == [path |-> d, kind |-> "dir"] \in fs IN
      /\ ev.op = "makedirs" /\ ev.entry = Entry
      /\ (had /\ ev.res # "ok") => faultsLeft' < faultsLeft
      /\ ev.res = "ok" =>
           /\ DirectoryTree(fs') =
                DirectoryTree(fs) \cup { [path |-> x, kind |-> "dir"] : x \in Ancestry(d) }
           /\ fs \subseteq fs'
           /\ had => fs' = fs
      /\ ev.res # "ok" => fs' = fs

C12_idempotent_makedirs == [][C12_makedirs_step]_vars

\* Two files that share their parent directory: the directory was asked for
\* twice and both files are there.
C12_witness ==
    \E k1, k2 \in DOMAIN log :
      /\ k1 < k2
      /\ log[k1].op = "makedirs" /\ log[k2].op = "makedirs"
      /\ log[k1].arg = log[k2].arg
      /\ log[k1].res = "ok" /\ log[k2].res = "ok"
      /\ \A k \in {k1, k2} : \E x \in LocalFiles :
           x.kind = "file" /\ x.path = MirrorOf(log[k].entry.path)

-----------------------------------------------------------------------------
(* C13: per-directory state machine.  An invocation ends in Failed only     *)
(* when a listing or continuation call for its directory raised; a failure  *)
(* while an entry is processed (the creation of the parent directory, the   *)
(* download, the retry) does not move the directory to Failed, and          *)
(* otherwise the invocation ends in Done.                                   *)

\* A listing or continuation call of the invocation for d raised.
ListingRaised(d) ==
    \E k \in DOMAIN log : log[k].dir = d /\ log[k].op \in Listings /\ log[k].res # "ok"

C13_directory_state_machine ==
    \A d \in Invoked \cup { log[k].dir : k \in {i \in DOMAIN log : log[i].op = "return"} } :
      /\ ReturnedAs(d, "Failed") => ListingRaised(d)
      /\ (Returned(d) /\ ~ListingRaised(d)) => ReturnedAs(d, "Done")
      /\ ~(ReturnedAs(d, "Done") /\ ReturnedAs(d, "Failed"))

-----------------------------------------------------------------------------
(* C14: bounded retry.  For every file entry the download is attempted at   *)
(* most twice: one first attempt, direct or through the API, and at most    *)
(* one retry through the API.  The backoff sleep and the retry occur only   *)
(* after a first attempt that raised a rate-limit error; after any other    *)
(* error no download is called again for that file.                         *)

AttemptsOf(e) == {k \in DOMAIN log : log[k].op \in Transfers /\ log[k].entry.id = e.id}

SleepsOf(e) == {k \in DOMAIN log : log[k].op = "time.sleep" /\ log[k].entry.id = e.id}

C14_bounded_retry ==
    \A e \in {x \in Listed : x.kind = "File"} :
      /\ Cardinality(AttemptsOf(e)) <= 2
      /\ Cardinality(SleepsOf(e)) <= 1
      /\ \A k \in SleepsOf(e) :
           /\ k > 2
           /\ k - 2 \in AttemptsOf(e)
           /\ log[k - 2].res \in RateLimited
           /\ \A j \in AttemptsOf(e) : j >= k - 2
      /\ \A k \in AttemptsOf(e) :
           (\E j \in AttemptsOf(e) : j < k) =>
             /\ log[k].op = "files_download_to_file"
             /\ k - 1 \in SleepsOf(e)
      /\ \A k \in AttemptsOf(e) :
           log[k].res \notin {"ok"} \cup RateLimited => \A j \in AttemptsOf(e) : j <= k

\* A file whose retry failed, and a file after it that failed for another
\* reason than a rate limit and was not retried.
C14_witness ==
    \E e1, e2 \in {x \in Listed : x.kind = "File"} :
      /\ Cardinality(AttemptsOf(e1)) = 2
      /\ \E k \in AttemptsOf(e1) : IsRetry(k) /\ log[k].res = "apierror"
      /\ Cardinality(AttemptsOf(e2)) = 1
      /\ \E k \in AttemptsOf(e2) :
           /\ log[k].res = "apierror" /\ k < Len(log)
           /\ \A j \in AttemptsOf(e1) : j < k

-----------------------------------------------------------------------------
(* C15: credentials are persisted only after a successful code exchange.    *)
(* Along every run of get_dropbox_client the credentials file is written at *)
(* most once, and only after auth_flow.finish returned a token pair; when   *)
(* the exchange fails, the file is as it was found, no client is built and  *)
(* get_dropbox_client returns None.                                         *)

Saves == {k \in DOMAIN log : log[k].op = "save_credentials"}

C15_persist_after_exchange ==
    /\ Cardinality(Saves) <= 1
    /\ \A k \in Saves :
         /\ k > 1
         /\ log[k - 1].op = "auth_flow.finish" /\ log[k - 1].res = "ok"
         /\ log[k].arg = <<"new">>
         /\ log[k].res = "ok" => credFile = "new"
    /\ Saves = {} => credFile = FileAtStart
    /\ \A k \in DOMAIN log :
         (log[k].op = "auth_flow.finish" /\ log[k].res # "ok") =>
           /\ Saves = {}
           /\ credFile = FileAtStart
           /\ \A j \in DOMAIN log : log[j].op # "dropbox.Dropbox"
           /\ Len(log) > k /\ log[k + 1] = Say("Error")
           /\ dbx = "None"
           /\ pc \in {"client_returned", "done"}

\* The exchange failed on a run that found a file holding null: the file is
\* as it was and main ended without a client.
C15_witness ==
    /\ log # <<>> /\ FileAtStart = "null" /\ credFile = "null"
    /\ \E k \in DOMAIN log : log[k].op = "auth_flow.finish" /\ log[k].res = "raise"
    /\ Saves = {} /\ dbx = "None" /\ pc = "done"

-----------------------------------------------------------------------------
(* C16: load_credentials.  As claimed: it returns None only when the        *)
(* credentials file does not exist; any other failure to read or parse it   *)
(* propagates out of load_credentials and get_dropbox_client: no            *)
(* authorization is started, no client is built, the file is not            *)
(* overwritten, and nothing is listed or downloaded.                        *)

\* The failure to read or parse the file ended the program.
LoadFailureFatal ==
    (log # <<>> /\ FileAtStart = "unreadable") =>
      /\ log = << Auth("load_credentials", <<"unreadable">>, "raise") >>
      /\ pc = "crashed"
      /\ credFile = "unreadable" /\ credentials = "None" /\ dbx = "None"
      /\ stack = <<>> /\ fs = {}

C16_as_claimed ==
    /\ (log # <<>> /\ log[1].res = "None") => FileAtStart = "absent"
    /\ LoadFailureFatal

(* C16, amended: load_credentials returns None when the credentials file    *)
(* does not exist and when it holds the JSON value null, and in no other    *)
(* case; any failure to read or parse the file propagates as claimed.       *)

C16_load_credentials ==
    /\ log # <<>> =>
         /\ log[1].op = "load_credentials"
         /\ (log[1].res = "None") = (FileAtStart \in {"absent", "null"})
         /\ (log[1].res = "raise") = (FileAtStart = "unreadable")
         /\ log[1].res \notin {"None", "raise"} => log[1].res = FileAtStart
    /\ pc = "crashed" => (log # <<>> /\ FileAtStart = "unreadable")
    /\ LoadFailureFatal

\* The program ended at a credentials file it could not parse.
C16_witness ==
    /\ pc = "crashed" /\ credFile = "unreadable"
    /\ log = << Auth("load_credentials", <<"unreadable">>, "raise") >>

-----------------------------------------------------------------------------
(* C17: sequential depth-first order.  Only the innermost invocation acts:  *)
(* every other active invocation waits at a Folder entry of its current     *)
(* page for the invocation of that folder, and the nesting depth of the     *)
(* active invocations is the depth of the folder being listed.  When a      *)
(* Folder entry is met, everything up to the return of its invocation       *)
(* belongs to its subtree: the parent goes through no further entry and     *)
(* fetches no further page before.                                          *)

\* Directory x is d or lies under d.
Under(d, x) ==
    /\ x # None
    /\ Len(x) >= Len(d)
    /\ SubSeq(x, 1, Len(d)) = d
    /\ Len(x) > Len(d) => x[Len(d) + 1] = Sep

DepthOf(current_path) == Len(components(list_path_of(current_path)))

ReturnsOf(d, after) ==
    {r \in DOMAIN log : r > after /\ log[r].op = "return" /\ log[r].dir = d}

C17_depth_first ==
    /\ \A i \in DOMAIN stack :
         /\ DepthOf(stack[i].current_path) = i - 1
         /\ i = 1 => stack[i].current_path = None
         /\ i < Len(stack) =>
              /\ stack[i].st = "entries"
              /\ stack[i].i <= Len(stack[i].result.entries)
              /\ stack[i].result.entries[stack[i].i].kind = "Folder"
              /\ stack[i + 1].current_path = stack[i].result.entries[stack[i].i].path
    /\ \A k \in DOMAIN log :
         (IsProcessing(log[k]) /\ log[k].entry.kind = "Folder") =>
           LET d == log[k].arg
               rs == ReturnsOf(d, k)
               end == IF rs = {} THEN Len(log)
                      ELSE CHOOSE r \in rs : \A q \in rs : r <= q IN
           /\ d = log[k].entry.path
           /\ Cardinality(rs) <= 1
           /\ \A j \in (k + 1)..end : Under(d, log[j].dir)
           /\ k < Len(log) =>
                (log[k + 1].op = "files_list_folder" /\ log[k + 1].dir = d)
           /\ rs = {} => \E i \in DOMAIN stack : i > 1 /\ stack[i].current_path = d

\* A folder with a page of its own, and the entry after it in its parent's
\* page, gone through after the folder's invocation returned.
C17_witness ==
    \E k, r, j \in DOMAIN log :
      /\ k < r /\ r < j
      /\ IsProcessing(log[k]) /\ log[k].entry.kind = "Folder"
      /\ log[r].op = "return" /\ log[r].dir = log[k].arg
      /\ IsProcessing(log[j]) /\ log[j].dir = log[k].dir
      /\ \E q \in (k + 1)..(r - 1) :
           log[q].op = "files_list_folder" /\ log[q].dir = log[k].arg /\ log[q].res = "ok"

-----------------------------------------------------------------------------
(* C18: download_dropbox_folder never propagates a failure.  Every error of *)
(* a listing, a continuation, a directory creation, a download, a retry or  *)
(* the rate-limit check is reported inside the invocation for the directory *)
(* where it occurred, which goes on or returns.  Once main holds a client   *)
(* it never makes its top-level error report, and it ends with the          *)
(* "Download completed successfully!" report, whatever failed.              *)

Absorbed == {"Error downloading", "Retry failed", "Error processing folder"}

IsReport(e, msg, d) == e.op = "print" /\ e.res = msg /\ e.dir = d

\* The failure at position k of the log was handled in the invocation for
\* its directory.
AbsorbedAt(k) ==
    LET d == log[k].dir
        failedFolder(q) ==
            /\ q + 1 <= Len(log)
            /\ IsReport(log[q], "Error processing folder", d)
            /\ log[q + 1].op = "return" /\ log[q + 1].dir = d /\ log[q + 1].res = "Failed" IN
    /\ k < Len(log)
    /\ log[k + 1].op = "print" /\ log[k + 1].dir = d /\ log[k + 1].res \in Absorbed
    /\ log[k].op \in Listings \cup {"makedirs"} => failedFolder(k + 1)
    /\ (log[k].op \in Transfers /\ ~IsRetry(k)) =>
         /\ IsReport(log[k + 1], "Error downloading", d)
         /\ log[k].res = "badcheck" => failedFolder(k + 2)
    /\ IsRetry(k) =>
         \/ IsReport(log[k + 1], "Retry failed", d)
         \/ failedFolder(k + 1)

C18_never_propagates ==
    /\ \A k \in DOMAIN log : FailedCall(log[k]) => AbsorbedAt(k)
    /\ \A k \in DOMAIN log : ~(log[k].op = "print" /\ log[k].res = "An error occurred")
    /\ dbx # "None" => pc \in {"client_returned", "download", "returned", "done"}
    /\ pc = "returned" => (stack = <<>> /\ Returned(None))
    /\ (pc = "done" /\ dbx # "None") =>
         /\ Returned(None)
         /\ log[Len(log)] = Say("Download completed successfully!")

\* main ended with its report of completion after a retry had raised what
\* is no ApiError.
C18_witness ==
    /\ pc = "done" /\ dbx # "None"
    /\ log[Len(log)] = Say("Download completed successfully!")
    /\ \E k \in DOMAIN log : IsRetry(k) /\ log[k].res = "other"

-----------------------------------------------------------------------------
(* C19: termination.  The traversal started by main ends, whatever listings *)
(* and downloads fail: as long as it has not ended a next step exists,      *)
(* every step adds to the log, and the log of the traversal is never longer *)
(* than the tree allows (three events for each invocation, one for each     *)
(* page with has_more, seven for each File entry, one for each Folder       *)
(* entry); so a finite tree with finitely many pages, whose calls all       *)
(* return or raise, lets it take finitely many steps.  At the end no        *)
(* invocation is active and every directory that was reached returned, as   *)
(* Done or as Failed.                                                       *)

\* The next statement of the traversal, or of main after it, can be executed.
CanStep ==
    \/ pc = "returned"
    \/ /\ Running
       /\ \/ Top.st \in {"list", "attempt", "retry"}
          \/ Top.st = "entries" /\ Top.i > Len(Top.result.entries)
          \/ Top.st = "entries" /\ Top.i <= Len(Top.result.entries)
                                /\ Entry.kind \in {"File", "Folder"}

\* The events of the traversal in the log.
TraversalLog == SelectSeq(log, LAMBDA e : e.dir # MainScope)

\* What the tree seen so far allows the traversal to log.
Work ==
    LET folders == Cardinality({e \in Listed : e.kind = "Folder"})
        files == Cardinality({e \in Listed : e.kind = "File"})
        more == Cardinality({k \in DOMAIN log :
                    log[k].op \in Listings /\ log[k].res = "ok" /\ log[k].page.has_more})
    IN  3 * (1 + folders) + more + 7 * files + folders

TraversalEnded ==
    /\ pc = "done" /\ stack = <<>>
    /\ \A d \in Invoked \cup {None} :
         /\ Returned(d)
         /\ ~(ReturnedAs(d, "Done") /\ ReturnedAs(d, "Failed"))

C19_termination ==
    /\ [](pc \in {"download", "returned"} => CanStep)
    /\ [][Download => Len(log') > Len(log)]_vars
    /\ [](Len(TraversalLog) <= Work)
    /\ []((pc = "done" /\ dbx # "None") => TraversalEnded)

\* A traversal that ended with a directory in Done and a directory in Failed.
C19_witness ==
    /\ TraversalEnded /\ dbx # "None"
    /\ \E d \in Invoked : ReturnedAs(d, "Done")
    /\ \E d \in Invoked : ReturnedAs(d, "Failed")

-----------------------------------------------------------------------------
(* C20: no cleanup on a failed transfer.  A file is reported as downloaded  *)
(* ("Downloaded", "Retry successful") only right after a download call for  *)
(* it that returned.  When a direct download fails after the local file was *)
(* opened, the file stays as it is, partly written: it is not reported as   *)
(* downloaded, no download is called for it again, and nothing later in the *)
(* run rewrites or removes it.                                              *)

ReportedDownloaded(e) ==
    \E k \in DOMAIN log :
      /\ log[k].op = "print" /\ log[k].res \in {"Downloaded", "Retry successful"}
      /\ log[k].entry.id = e.id

\* The direct downloads that failed after the local file was opened.
FailedWhileWriting ==
    {k \in DOMAIN log : log[k].op = "requests.get" /\ log[k].res = "midway"}

C20_no_cleanup ==
    /\ \A k \in DOMAIN log :
         (log[k].op = "print" /\ log[k].res \in {"Downloaded", "Retry successful"}) =>
           /\ k > 1
           /\ log[k - 1].op \in Transfers /\ log[k - 1].res = "ok"
           /\ log[k - 1].entry = log[k].entry
           /\ (log[k].res = "Retry successful") = IsRetry(k - 1)
    /\ \A k \in FailedWhileWriting :
         LET e == log[k].entry IN
         /\ [path |-> MirrorOf(e.path), kind |-> "partial"] \in fs
         /\ [path |-> MirrorOf(e.path), kind |-> "file"] \notin fs
         /\ ~ReportedDownloaded(e)
         /\ AttemptsOf(e) = {k}
         /\ SleepsOf(e) = {}
    /\ \A x \in fs :
         x.kind = "partial" =>
           \E k \in FailedWhileWriting : x.path = MirrorOf(log[k].entry.path)

\* The run ended with a partly written file, after a later file had been
\* downloaded.
C20_witness ==
    /\ pc = "done"
    /\ \E k \in FailedWhileWriting :
         /\ [path |-> MirrorOf(log[k].entry.path), kind |-> "partial"] \in fs
         /\ \E j \in DOMAIN log :
              j > k /\ log[j].op = "print" /\ log[j].res = "Downloaded"

====
